---- MODULE Spec2Model ----
(***************************************************************************)
(* The todo-list storage layer of examples/python-cli-example:             *)
(* models.py (Todo, Priority), storage.py (TodoStorage) and the add,       *)
(* complete and uncomplete commands of cli.py.                             *)
(*                                                                         *)
(* The items file and its .bak sibling are modelled as byte sequences at   *)
(* the granularity of JSON tokens: "[", "]", one token per item object,    *)
(* a number literal, and unparseable junk.                                 *)
(***************************************************************************)
EXTENDS Integers, Sequences, FiniteSets, TLC

\* ------------------------------------------------------------------ bounds
\* The largest collection an add is admitted to build.
MaxLen == 3
\* The same for the add command.
MaxCliLen == 2
\* The calls one process makes when its file-system steps are taken one by one.
MaxCalls == 2
\* The calls each of two concurrent processes makes.
MaxConcCalls == 1

\* ------------------------------------------------------------- plain values
\* Python's None, and the JSON null json.dump writes for it.
None == "None"
Null == "null"

\* Identifiers are character sequences, so that startswith can be computed.
Ids == {<<"a", "1">>, <<"a", "2">>, <<"b", "1">>}
NoId == <<>>

\* datetime.now().isoformat() values.
Clock == {"c1", "c2"}

\* ---------------------------------------------------------------- models.py
\* class Priority(str, Enum): member names and their values.
PriorityMembers == {"LOW", "MEDIUM", "HIGH"}
PriorityValues == {"low", "medium", "high"}

\* Priority.X.value
PriorityValue(m) ==
    CASE m = "LOW" -> "low"
      [] m = "MEDIUM" -> "medium"
      [] m = "HIGH" -> "high"

\* Priority(s): the member whose value is s (the caller has checked s is a value).
PriorityOfValue(s) ==
    CASE s = "low" -> "LOW"
      [] s = "medium" -> "MEDIUM"
      [] s = "high" -> "HIGH"

\* The fields of the Todo dataclass.
TodoFields ==
    {"id", "title", "description", "completed", "priority", "category",
     "due_date", "created_at", "completed_at"}

\* Todo(...): the dataclass constructor with its defaults; uuid and now are the
\* values the two default factories produce.
Todo(uuid, now) ==
    [id |-> uuid, title |-> "", description |-> "", completed |-> FALSE,
     priority |-> "MEDIUM", category |-> "", due_date |-> None,
     created_at |-> now, completed_at |-> None]

\* json.dump of an Optional[str] field, and json.load of it.
ToJson(v) == IF v = None THEN Null ELSE v
FromJson(v) == IF v = Null THEN None ELSE v

\* isinstance(v, str) of a value read from JSON.
IsStr(v) == v # Null

\* A to_dict that forgets the completion timestamp.
to_dict_no_completed_at(todo) ==
    [id |-> todo.id, title |-> todo.title, description |-> todo.description,
     completed |-> todo.completed,
     priority |-> IF todo.priority \in PriorityMembers
                  THEN PriorityValue(todo.priority)
                  ELSE ToJson(todo.priority),
     category |-> todo.category, due_date |-> ToJson(todo.due_date),
     created_at |-> todo.created_at, completed_at |-> Null]

\* Todo.to_dict: a mapping with all nine keys; the priority as its value.
to_dict(todo) ==
    [id |-> todo.id,
     title |-> todo.title,
     description |-> todo.description,
     completed |-> todo.completed,
     priority |-> IF todo.priority \in PriorityMembers
                  THEN PriorityValue(todo.priority)
                  ELSE ToJson(todo.priority),
     category |-> todo.category,
     due_date |-> ToJson(todo.due_date),
     created_at |-> todo.created_at,
     completed_at |-> ToJson(todo.completed_at)]

\* Todo.from_dict: Priority(...) raises ValueError on a string outside the enum,
\* cls(**data_copy) raises TypeError on an unknown key and fills the defaults of
\* the missing ones.
from_dict(data, uuid, now) ==
    IF "priority" \in DOMAIN data /\ IsStr(data.priority)
       /\ data.priority \notin PriorityValues
    THEN [exc |-> "ValueError", todo |-> Todo(NoId, None)]
    ELSE IF DOMAIN data \ TodoFields # {}
    THEN [exc |-> "TypeError", todo |-> Todo(NoId, None)]
    ELSE LET dflt == Todo(uuid, now)
             val(f) == IF f \in DOMAIN data THEN data[f] ELSE dflt[f]
         IN [exc |-> "none",
             todo |->
               [id |-> val("id"),
                title |-> val("title"),
                description |-> val("description"),
                completed |-> val("completed"),
                priority |-> IF "priority" \in DOMAIN data
                             THEN IF IsStr(data.priority)
                                  THEN PriorityOfValue(data.priority)
                                  ELSE FromJson(data.priority)
                             ELSE dflt.priority,
                category |-> val("category"),
                due_date |-> IF "due_date" \in DOMAIN data
                             THEN FromJson(data.due_date) ELSE dflt.due_date,
                created_at |-> val("created_at"),
                completed_at |-> IF "completed_at" \in DOMAIN data
                                 THEN FromJson(data.completed_at)
                                 ELSE dflt.completed_at]]

\* ------------------------------------------------------------ file contents
\* Tokens of a file's text.
LBR == [k |-> "["]
RBR == [k |-> "]"]
NumTok == [k |-> "num"]
EmptyObj == [k |-> "{}"]
Obj(d) == [k |-> "obj", d |-> d]
Junk(n) == [k |-> "junk", n |-> n]
Nul == [k |-> "nul"]

\* A path of the directory: whether it exists, and the bytes it holds.
Absent == [exists |-> FALSE, bytes |-> <<>>]
File(bytes) == [exists |-> TRUE, bytes |-> bytes]

\* json.dump([todo.to_dict() for todo in todos], f, indent=2): the text written.
Dump(todos) ==
    <<LBR>> \o [i \in 1..Len(todos) |-> Obj(to_dict(todos[i]))] \o <<RBR>>

\* json.load(f): the parsed document, or JSONDecodeError. A document is a list of
\* values, a number, or an object.
json_load(bytes) ==
    IF Len(bytes) >= 2 /\ bytes[1] = LBR /\ bytes[Len(bytes)] = RBR
       /\ \A i \in 2..(Len(bytes) - 1) : bytes[i].k \in {"obj", "{}", "num"}
    THEN [exc |-> "none", type |-> "list",
          elems |-> SubSeq(bytes, 2, Len(bytes) - 1)]
    ELSE IF Len(bytes) = 1 /\ bytes[1].k \in {"obj", "{}", "num"}
    THEN [exc |-> "none", type |-> bytes[1].k, elems |-> <<>>]
    ELSE [exc |-> "JSONDecodeError", type |-> "none", elems |-> <<>>]

\* Todo.from_dict(item) for one item of the parsed list: a value that is no
\* mapping has no .copy() (AttributeError).
item_from_dict(e, uuid, now) ==
    CASE e.k = "obj" -> from_dict(e.d, uuid, now)
      [] e.k = "{}" -> [exc |-> "none", todo |-> Todo(uuid, now)]
      [] OTHER -> [exc |-> "AttributeError", todo |-> Todo(NoId, None)]

\* [Todo.from_dict(item) for item in data] over a parsed list, res being the
\* outcome of from_dict on each item: the todos, or the exception of the first item
\* that raises.
collect(res) ==
    IF \E i \in 1..Len(res) : res[i].exc # "none"
    THEN [exc |-> res[CHOOSE i \in 1..Len(res) :
                        /\ res[i].exc # "none"
                        /\ \A j \in 1..(i - 1) : res[j].exc = "none"].exc,
          todos |-> <<>>]
    ELSE [exc |-> "none", todos |-> [i \in 1..Len(res) |-> res[i].todo]]

\* The comprehension over the document json.load returned. Iterating a number
\* raises TypeError; iterating an object yields its keys, which are strings
\* (AttributeError) unless there are none.
todos_of(doc, uuid, now) ==
    CASE doc.exc # "none" -> [exc |-> doc.exc, todos |-> <<>>]
      [] doc.type = "num" -> [exc |-> "TypeError", todos |-> <<>>]
      [] doc.type = "obj" -> [exc |-> "AttributeError", todos |-> <<>>]
      [] doc.type = "{}" -> [exc |-> "none", todos |-> <<>>]
      [] OTHER -> collect([i \in 1..Len(doc.elems) |->
                             item_from_dict(doc.elems[i], uuid, now)])

\* The body of load's try block on the bytes of the file.
read_todos(bytes, uuid, now) == todos_of(json_load(bytes), uuid, now)

\* --------------------------------------------------------------- storage.py
\* An except clause that leaves ValueError out.
Caught_without_ValueError == {"JSONDecodeError", "KeyError"}

\* except (json.JSONDecodeError, KeyError, ValueError)
Caught == {"JSONDecodeError", "KeyError", "ValueError"}

\* A rename that refuses to replace an existing backup.
rename_keep_first(fs) ==
    [data |-> Absent, bak |-> IF fs.bak.exists THEN fs.bak ELSE fs.data]

\* self.data_file.rename(backup): the backup path takes the file, whatever it held.
rename_to_bak(fs) == [data |-> Absent, bak |-> fs.data]

\* TodoStorage.load, r being the outcome of its try block: the except clause
\* renames the file and returns []; any other exception leaves the call.
load_outcome(fs, r) ==
    CASE r.exc = "none" -> [fs |-> fs, todos |-> r.todos, exc |-> "none"]
      [] r.exc \in Caught ->
            [fs |-> IF fs.data.exists THEN rename_to_bak(fs) ELSE fs,
             todos |-> <<>>, exc |-> "none"]
      [] OTHER -> [fs |-> fs, todos |-> <<>>, exc |-> r.exc]

\* TodoStorage.load
load(fs, uuid, now) ==
    IF ~fs.data.exists
    THEN [fs |-> fs, todos |-> <<>>, exc |-> "none"]
    ELSE load_outcome(fs, read_todos(fs.data.bytes, uuid, now))

\* An open that keeps what the file holds (mode "r+" where the file exists).
open_keeps_content(fs) ==
    IF fs.data.exists THEN fs ELSE [fs EXCEPT !.data = File(<<>>)]

\* open(self.data_file, "w"): the file is created, or truncated where it exists.
open_w(fs) == [fs EXCEPT !.data = File(<<>>)]

\* write(2) of chunk at offset pos of a file holding bytes: the bytes before pos
\* stay (a hole is zeros), the chunk replaces what it covers, the rest stays.
write_at(bytes, pos, chunk) ==
    [i \in 1..(IF Len(bytes) > pos + Len(chunk) THEN Len(bytes) ELSE pos + Len(chunk)) |->
        IF i > pos /\ i <= pos + Len(chunk) THEN chunk[i - pos]
        ELSE IF i <= Len(bytes) THEN bytes[i]
        ELSE Nul]

\* TodoStorage.save, with no failure of the file system and nothing in between:
\* open, json.dump, close.
save(fs, todos) ==
    [open_w(fs) EXCEPT !.data.bytes = write_at(@, 0, Dump(todos))]

\* The index of the first todo whose id is todo_id, 0 when there is none
\* (the for loops of get, update and delete).
FirstMatch(todos, todo_id) ==
    LET m == {i \in 1..Len(todos) : todos[i].id = todo_id}
    IN IF m = {} THEN 0 ELSE CHOOSE i \in m : \A j \in m : i <= j

\* What a method does between its load and its save: the collection to write (when
\* write), and what it returns.
Outcome(todos, write, rbool, rint, rtodos) ==
    [todos |-> todos, write |-> write, rbool |-> rbool, rint |-> rint,
     rtodos |-> rtodos]

\* TodoStorage.load, called by the presentation layer: returns the list.
load_body(todos) == Outcome(todos, FALSE, FALSE, 0, todos)

\* TodoStorage.add: todos.append(todo); save.
add_body(todos, todo) == Outcome(Append(todos, todo), TRUE, FALSE, 0, <<>>)

\* TodoStorage.get: the first todo with the id, or None (the empty sequence).
get_body(todos, todo_id) ==
    LET i == FirstMatch(todos, todo_id)
    IN Outcome(todos, FALSE, FALSE, 0, IF i = 0 THEN <<>> ELSE <<todos[i]>>)

\* An update that writes the collection back even when nothing matched.
update_body_always_saves(todos, todo) ==
    IF FirstMatch(todos, todo.id) = 0
    THEN Outcome(todos, TRUE, FALSE, 0, <<>>)
    ELSE Outcome([todos EXCEPT ![FirstMatch(todos, todo.id)] = todo],
                 TRUE, TRUE, 0, <<>>)

\* An update that removes the match and appends the new record.
update_body_moves_to_end(todos, todo) ==
    IF FirstMatch(todos, todo.id) = 0
    THEN Outcome(todos, FALSE, FALSE, 0, <<>>)
    ELSE Outcome(Append(SubSeq(todos, 1, FirstMatch(todos, todo.id) - 1)
                        \o SubSeq(todos, FirstMatch(todos, todo.id) + 1, Len(todos)),
                        todo),
                 TRUE, TRUE, 0, <<>>)

\* TodoStorage.update: todos[i] = todo at the first match, save, True; else False.
update_body(todos, todo) ==
    LET i == FirstMatch(todos, todo.id)
    IN IF i = 0
       THEN Outcome(todos, FALSE, FALSE, 0, <<>>)
       ELSE Outcome([todos EXCEPT ![i] = todo], TRUE, TRUE, 0, <<>>)

\* A delete that removes every todo with the id.
HasOtherId(todos, todo_id) == {i \in 1..Len(todos) : todos[i].id # todo_id}
delete_body_removes_all(todos, todo_id) ==
    IF FirstMatch(todos, todo_id) = 0
    THEN Outcome(todos, FALSE, FALSE, 0, <<>>)
    ELSE Outcome([i \in 1..Cardinality(HasOtherId(todos, todo_id)) |->
                    todos[CHOOSE k \in HasOtherId(todos, todo_id) :
                            Cardinality({j \in HasOtherId(todos, todo_id) : j <= k}) = i]],
                 TRUE, TRUE, 0, <<>>)

\* TodoStorage.delete: todos.pop(i) at the first match, save, True; else False.
delete_body(todos, todo_id) ==
    LET i == FirstMatch(todos, todo_id)
    IN IF i = 0
       THEN Outcome(todos, FALSE, FALSE, 0, <<>>)
       ELSE Outcome(SubSeq(todos, 1, i - 1) \o SubSeq(todos, i + 1, Len(todos)),
                    TRUE, TRUE, 0, <<>>)

\* A clear_completed that returns how many todos are left.
clear_completed_body_counts_kept(todos) ==
    Outcome(SelectSeq(todos, LAMBDA t : ~t.completed), TRUE, FALSE,
            Len(SelectSeq(todos, LAMBDA t : ~t.completed)), <<>>)

\* TodoStorage.clear_completed: keep the todos that are not completed, save, return
\* initial_count - len(todos).
NotCompleted(todo) == ~todo.completed
clear_completed_body(todos) ==
    LET kept == SelectSeq(todos, NotCompleted)
    IN Outcome(kept, TRUE, FALSE, Len(todos) - Len(kept), <<>>)

\* The method named op, applied to the loaded collection.
Body(op, todos, todo, todo_id) ==
    CASE op = "load" -> load_body(todos)
      [] op = "add" -> add_body(todos, todo)
      [] op = "get" -> get_body(todos, todo_id)
      [] op = "update" -> update_body(todos, todo)
      [] op = "delete" -> delete_body(todos, todo_id)
      [] op = "clear_completed" -> clear_completed_body(todos)

\* The end of a call whose load returned l and whose body decided b: save when the
\* body says so, and return. An exception load does not catch ends the call before
\* anything else happens.
finish(l, b) ==
    IF l.exc # "none"
    THEN [fs |-> l.fs, exc |-> l.exc, rbool |-> FALSE, rint |-> 0, rtodos |-> <<>>]
    ELSE [fs |-> IF b.write THEN save(l.fs, b.todos) ELSE l.fs,
          exc |-> "none", rbool |-> b.rbool, rint |-> b.rint,
          rtodos |-> b.rtodos]

\* The body of the method named op after a load that returned l.
after_load(op, l, todo, todo_id) ==
    finish(l, Body(op, l.todos, todo, todo_id))

\* One whole call of a TodoStorage method: load, the method's body, save.
Call(op, fs, todo, todo_id, uuid, now) ==
    after_load(op, load(fs, uuid, now), todo, todo_id)

\* ------------------------------------------------------------------- cli.py
\* t.id.startswith(todo_id)
startswith(id, prefix) ==
    Len(prefix) <= Len(id) /\ SubSeq(id, 1, Len(prefix)) = prefix

\* matching = [t for t in todos if t.id.startswith(todo_id)]
matching(todos, prefix) == SelectSeq(todos, LAMBDA t : startswith(t.id, prefix))

\* A complete that sets the flag and forgets the timestamp.
mark_completed_no_timestamp(todo, now) == [todo EXCEPT !.completed = TRUE]

\* complete: todo.completed = True; todo.completed_at = datetime.now().isoformat()
mark_completed(todo, now) ==
    [todo EXCEPT !.completed = TRUE, !.completed_at = now]

\* uncomplete: todo.completed = False; todo.completed_at = None
mark_reopened(todo, now) ==
    [todo EXCEPT !.completed = FALSE, !.completed_at = None]

\* The record complete (done) or uncomplete hands to storage.update.
marked(todo, done, now) ==
    IF done THEN mark_completed(todo, now) ELSE mark_reopened(todo, now)

\* complete and uncomplete after their storage.load() returned l, m being the
\* matching todos: no match or several print a message and return; one match is
\* marked and handed to storage.update, which loads the file again.
mark_matching(l, m, done, now) ==
    IF Len(m) # 1
    THEN [fs |-> l.fs, exc |-> "none", rbool |-> FALSE, rint |-> Len(m),
          rtodos |-> <<>>]
    ELSE [Call("update", l.fs, marked(m[1], done, now), NoId, NoId, None)
            EXCEPT !.rint = 1, !.rtodos = <<marked(m[1], done, now)>>]

mark_after_load(l, prefix, done, now) ==
    IF l.exc # "none"
    THEN [fs |-> l.fs, exc |-> l.exc, rbool |-> FALSE, rint |-> 0, rtodos |-> <<>>]
    ELSE mark_matching(l, matching(l.todos, prefix), done, now)

\* The complete command (done) and the uncomplete command (not done).
cli_mark(fs, prefix, done, now) ==
    mark_after_load(load(fs, NoId, None), prefix, done, now)

\* datetime.fromisoformat(due) of the add command accepts the date.
ValidDates == {"2000-01-01"}

\* The add command: an unparseable due date prints a message and returns; else the
\* Todo is built (uuid4 id, created now, not completed) and handed to storage.add.
cli_new_todo(title, priority, due, uuid, now) ==
    [Todo(uuid, now) EXCEPT !.title = title,
                            !.priority = PriorityOfValue(priority),
                            !.due_date = due]

cli_add(fs, title, priority, due, uuid, now) ==
    IF due # None /\ due \notin ValidDates
    THEN [fs |-> fs, exc |-> "none", rbool |-> FALSE, rint |-> 0, rtodos |-> <<>>]
    ELSE [Call("add", fs, cli_new_todo(title, priority, due, uuid, now),
               NoId, NoId, None)
            EXCEPT !.rbool = TRUE,
                   !.rtodos = <<cli_new_todo(title, priority, due, uuid, now)>>]

\* ------------------------------------------------------------------- inputs
\* The records handed to add and update.
NewTodo(id, completed, priority) ==
    [Todo(id, "c1") EXCEPT !.title = "t", !.completed = completed,
                           !.priority = priority,
                           !.completed_at = IF completed THEN "c2" ELSE None]

TodoInputs ==
    {NewTodo(<<"a", "1">>, FALSE, "MEDIUM"), NewTodo(<<"a", "1">>, TRUE, "HIGH"),
     NewTodo(<<"a", "2">>, FALSE, "LOW"), NewTodo(<<"a", "2">>, TRUE, "MEDIUM"),
     NewTodo(<<"b", "1">>, FALSE, "HIGH")}

NoTodo == Todo(NoId, None)

\* Contents an items file is found with that no save wrote: unparseable text, an
\* empty file, an item with a priority outside the enumeration, an item with an
\* unknown key, a number, a list holding a number, an empty object, a single
\* object, an item that leaves optional keys out, a stored item followed by an
\* item with a priority outside the enumeration, and an item with an unknown key
\* followed by one.
BadPriorityItem ==
    [id |-> <<"a", "1">>, title |-> "t", priority |-> "urgent", created_at |-> "c1"]
UnknownKeyItem ==
    [id |-> <<"a", "1">>, title |-> "t", bogus |-> "x", created_at |-> "c1"]
SparseItem ==
    [id |-> <<"b", "1">>, title |-> "t", created_at |-> "c1"]

ForeignContents ==
    {<<Junk(1)>>, <<Junk(2)>>, <<>>,
     <<LBR, Obj(BadPriorityItem), RBR>>,
     <<LBR, Obj(UnknownKeyItem), RBR>>,
     <<NumTok>>,
     <<LBR, NumTok, RBR>>,
     <<EmptyObj>>,
     <<Obj(SparseItem)>>,
     <<LBR, Obj(SparseItem), RBR>>,
     <<LBR, Obj(to_dict(NewTodo(<<"b", "1">>, FALSE, "HIGH"))),
            Obj(BadPriorityItem), RBR>>,
     <<LBR, Obj(UnknownKeyItem), Obj(BadPriorityItem), RBR>>}

\* What the commands are given: the identifier prefixes, the priorities and the
\* --due values of add.
Prefixes == {<<>>, <<"a">>, <<"b">>} \cup Ids
CliPriorities == {"high"}
CliDues == {None, "soon"}

\* -------------------------------------------------------------------- state
VARIABLES
    fs,     \* the items file and its .bak sibling
    last,   \* the last completed call: its arguments, the files before it, its result
    proc,   \* per process, the call it is in when calls run one file-system step at a time
    ghost   \* history: whether two processes' loads or saves overlapped, the last save

vars == <<fs, last, proc, ghost>>

\* No save has completed yet.
NoSave == [valid |-> FALSE, todos |-> <<>>]

\* A process that is in no call.
Idle ==
    [pc |-> "idle", op |-> "none", todo |-> NoTodo, id |-> NoId,
     pre |-> [data |-> Absent, bak |-> Absent],
     loaded |-> <<>>, seen |-> NoSave, todos |-> <<>>, write |-> FALSE,
     exc |-> "none", rbool |-> FALSE, rint |-> 0, fd |-> "none", pos |-> 0, n |-> 0]

NoCall ==
    [op |-> "none", todo |-> NoTodo, id |-> NoId,
     pre |-> [data |-> Absent, bak |-> Absent],
     exc |-> "none", rbool |-> FALSE, rint |-> 0, rtodos |-> <<>>]

\* TodoStorage.__init__ creates the directory only: no items file, no backup.
Init ==
    /\ fs = [data |-> Absent, bak |-> Absent]
    /\ last = NoCall
    /\ proc = [p \in {1} |-> Idle]
    /\ ghost = [overlap |-> FALSE, lastSave |-> NoSave]

\* The values the default factories of Todo (uuid4, datetime.now) can produce
\* while the items file is read: they show only in an item that leaves "id" or
\* "created_at" out, so one value stands for all when there is no such item.
LacksFactoryKey(e) ==
    \/ e.k = "{}"
    \/ e.k = "obj" /\ ~({"id", "created_at"} \subseteq DOMAIN e.d)
Entropy(f) ==
    IF \E i \in 1..Len(f.data.bytes) : LacksFactoryKey(f.data.bytes[i])
    THEN Ids \X Clock
    ELSE {<<NoId, None>>}

\* What load would return from the files f, were it called now.
Stored(f) == load(f, NoId, None).todos

\* The record of a call: its arguments, the files before it, and its result r.
Record(op, todo, todo_id, r) ==
    [op |-> op, todo |-> todo, id |-> todo_id, pre |-> fs,
     exc |-> r.exc, rbool |-> r.rbool, rint |-> r.rint, rtodos |-> r.rtodos]

\* storage.load()
Load ==
    \E e \in Entropy(fs) :
        \E r \in {Call("load", fs, NoTodo, NoId, e[1], e[2])} :
           /\ fs' = r.fs
           /\ last' = Record("load", NoTodo, NoId, r)
           /\ UNCHANGED <<proc, ghost>>

\* storage.add(todo)
Add ==
    \E todo \in TodoInputs, e \in Entropy(fs) :
        \E r \in {Call("add", fs, todo, NoId, e[1], e[2])} :
           /\ Len(Stored(fs)) < MaxLen
           /\ fs' = r.fs
           /\ last' = Record("add", todo, NoId, r)
           /\ UNCHANGED <<proc, ghost>>

\* storage.get(todo_id)
Get ==
    \E todo_id \in Ids, e \in Entropy(fs) :
        \E r \in {Call("get", fs, NoTodo, todo_id, e[1], e[2])} :
           /\ fs' = r.fs
           /\ last' = Record("get", NoTodo, todo_id, r)
           /\ UNCHANGED <<proc, ghost>>

\* storage.update(todo)
Update ==
    \E todo \in TodoInputs, e \in Entropy(fs) :
        \E r \in {Call("update", fs, todo, NoId, e[1], e[2])} :
           /\ fs' = r.fs
           /\ last' = Record("update", todo, NoId, r)
           /\ UNCHANGED <<proc, ghost>>

\* storage.delete(todo_id)
Delete ==
    \E todo_id \in Ids, e \in Entropy(fs) :
        \E r \in {Call("delete", fs, NoTodo, todo_id, e[1], e[2])} :
           /\ fs' = r.fs
           /\ last' = Record("delete", NoTodo, todo_id, r)
           /\ UNCHANGED <<proc, ghost>>

\* storage.clear_completed()
ClearCompleted ==
    \E e \in Entropy(fs) :
        \E r \in {Call("clear_completed", fs, NoTodo, NoId, e[1], e[2])} :
           /\ fs' = r.fs
           /\ last' = Record("clear_completed", NoTodo, NoId, r)
           /\ UNCHANGED <<proc, ghost>>

\* Something other than the storage manager writes the items file.
ForeignWrite ==
    \E bytes \in ForeignContents :
        /\ fs' = [fs EXCEPT !.data = File(bytes)]
        /\ last' = [NoCall EXCEPT !.op = "foreign", !.pre = fs]
        /\ UNCHANGED <<proc, ghost>>

\* todocli add TITLE [-p PRIORITY] [--due DUE]
CliAdd ==
    \E priority \in CliPriorities, due \in CliDues, uuid \in Ids, now \in Clock :
        \E r \in {cli_add(fs, "t", priority, due, uuid, now)} :
           /\ Len(Stored(fs)) < MaxCliLen
           /\ fs' = r.fs
           /\ last' = [Record("cli_add", NoTodo, NoId, r) EXCEPT !.rtodos = r.rtodos]
           /\ UNCHANGED <<proc, ghost>>

\* todocli complete TODO_ID
CliComplete ==
    \E prefix \in Prefixes, now \in Clock :
        \E r \in {cli_mark(fs, prefix, TRUE, now)} :
           /\ fs' = r.fs
           /\ last' = Record("cli_complete", NoTodo, prefix, r)
           /\ UNCHANGED <<proc, ghost>>

\* todocli uncomplete TODO_ID
CliUncomplete ==
    \E prefix \in Prefixes, now \in Clock :
        \E r \in {cli_mark(fs, prefix, FALSE, now)} :
           /\ fs' = r.fs
           /\ last' = Record("cli_uncomplete", NoTodo, prefix, r)
           /\ UNCHANGED <<proc, ghost>>

Next ==
    \/ Load
    \/ Add
    \/ Get
    \/ Update
    \/ Delete
    \/ ClearCompleted
    \/ ForeignWrite

Spec == Init /\ [][Next]_vars

\* The add, complete and uncomplete commands on a fresh store.
NextCli ==
    \/ CliAdd
    \/ CliComplete
    \/ CliUncomplete

SpecCli == Init /\ [][NextCli]_vars

\* ------------------------------------------- calls, one file-system step at a time
\* The mutating methods a process calls, and what it passes.
StepOps == {"add", "update", "delete", "clear_completed"}
StepTodos == {NewTodo(<<"a", "1">>, TRUE, "HIGH"), NewTodo(<<"b", "1">>, FALSE, "LOW")}
StepIds == {<<"a", "1">>}

\* The process is between the first and the last file-system step of a load
\* (exists, open and read, exists, rename) or of a save (open, writes, close).
Mid(q) == proc[q].pc \in {"read", "except", "rename", "write"}

\* A file-system step of p falls inside a load or a save of another process.
Interferes(p) == \E q \in DOMAIN proc \ {p} : Mid(q)

\* The call ends with an exception: the with block closes the file.
Raise(pr, exc) ==
    [pr EXCEPT !.pc = "idle", !.exc = exc, !.fd = "none", !.pos = 0, !.n = @ + 1]

\* load has returned todos and the method's body has decided b: the call goes on to
\* save, or returns.
Loaded(pr, todos, b, seen) ==
    [pr EXCEPT !.loaded = todos, !.seen = seen, !.todos = b.todos,
               !.write = b.write, !.rbool = b.rbool, !.rint = b.rint,
               !.pc = IF b.write THEN "open" ELSE "idle",
               !.n = IF b.write THEN @ ELSE @ + 1]

load_returns(pr, todos, seen) ==
    Loaded(pr, todos, Body(pr.op, todos, pr.todo, pr.id), seen)

\* The path an open file is reached by after the items file was renamed over the
\* backup: the descriptor follows the file.
after_rename(fd) ==
    CASE fd = "data" -> "bak"
      [] fd = "bak" -> "orphan"
      [] OTHER -> fd

\* The files after a write of chunk at offset pos through a descriptor.
written(f, fd, pos, chunk) ==
    CASE fd = "data" -> [f EXCEPT !.data.bytes = write_at(@, pos, chunk)]
      [] fd = "bak" -> [f EXCEPT !.bak.bytes = write_at(@, pos, chunk)]
      [] OTHER -> f

\* A process calls a mutating method.
Begin(p, max) ==
    /\ proc[p].pc = "idle"
    /\ proc[p].n < max
    /\ \E op \in StepOps, todo \in StepTodos \cup {NoTodo}, todo_id \in StepIds \cup {NoId} :
          /\ (todo # NoTodo) <=> (op \in {"add", "update"})
          /\ (todo_id # NoId) <=> (op = "delete")
          /\ proc' = [proc EXCEPT ![p] =
                        [Idle EXCEPT !.pc = "exists", !.op = op, !.todo = todo,
                                     !.id = todo_id, !.pre = fs, !.n = proc[p].n]]
    /\ UNCHANGED <<fs, last, ghost>>

\* load: if not self.data_file.exists(): return []
LoadExists(p) ==
    /\ proc[p].pc = "exists"
    /\ proc' = [proc EXCEPT ![p] =
                  IF fs.data.exists
                  THEN [@ EXCEPT !.pc = "read"]
                  ELSE load_returns(@, <<>>, ghost.lastSave)]
    /\ ghost' = [ghost EXCEPT !.overlap = @ \/ Interferes(p)]
    /\ UNCHANGED <<fs, last>>

\* load: the try block. The file may have been renamed since exists() (open raises
\* FileNotFoundError, which the except clause does not name).
LoadRead(p) ==
    /\ proc[p].pc = "read"
    /\ \E e \in Entropy(fs) :
          \E r \in {read_todos(fs.data.bytes, e[1], e[2])} :
             proc' = [proc EXCEPT ![p] =
                        IF ~fs.data.exists THEN Raise(@, "FileNotFoundError")
                        ELSE IF r.exc = "none"
                        THEN load_returns(@, r.todos, ghost.lastSave)
                        ELSE IF r.exc \in Caught THEN [@ EXCEPT !.pc = "except"]
                        ELSE Raise(@, r.exc)]
    /\ ghost' = [ghost EXCEPT !.overlap = @ \/ Interferes(p)]
    /\ UNCHANGED <<fs, last>>

\* load: the except clause, if self.data_file.exists()
LoadExcept(p) ==
    /\ proc[p].pc = "except"
    /\ proc' = [proc EXCEPT ![p] =
                  IF fs.data.exists
                  THEN [@ EXCEPT !.pc = "rename"]
                  ELSE load_returns(@, <<>>, ghost.lastSave)]
    /\ ghost' = [ghost EXCEPT !.overlap = @ \/ Interferes(p)]
    /\ UNCHANGED <<fs, last>>

\* load: self.data_file.rename(backup); return []
LoadRename(p) ==
    /\ proc[p].pc = "rename"
    /\ IF fs.data.exists
       THEN /\ fs' = rename_to_bak(fs)
            /\ proc' = [q \in DOMAIN proc |->
                          IF q = p
                          THEN load_returns(proc[p], <<>>, ghost.lastSave)
                          ELSE [proc[q] EXCEPT !.fd = after_rename(@)]]
       ELSE /\ fs' = fs
            /\ proc' = [proc EXCEPT ![p] = Raise(@, "FileNotFoundError")]
    /\ ghost' = [ghost EXCEPT !.overlap = @ \/ Interferes(p)]
    /\ UNCHANGED last

\* save: open(self.data_file, "w")
SaveOpen(p) ==
    /\ proc[p].pc = "open"
    /\ fs' = open_w(fs)
    /\ proc' = [proc EXCEPT ![p] = [@ EXCEPT !.pc = "write", !.fd = "data", !.pos = 0]]
    /\ ghost' = [ghost EXCEPT !.overlap = @ \/ Interferes(p)]
    /\ UNCHANGED last

\* save: json.dump reaches the file in one write or in several; the last one is
\* followed by the close that ends the call.
SaveWrite(p) ==
    /\ proc[p].pc = "write"
    /\ \E text \in {Dump(proc[p].todos)} :
          \E k \in 1..(Len(text) - proc[p].pos) :
             /\ fs' = written(fs, proc[p].fd, proc[p].pos,
                              SubSeq(text, proc[p].pos + 1, proc[p].pos + k))
             /\ IF proc[p].pos + k = Len(text)
                THEN /\ proc' = [proc EXCEPT ![p] =
                                   [@ EXCEPT !.pc = "idle", !.fd = "none", !.pos = 0,
                                             !.n = @ + 1]]
                     /\ ghost' = [overlap |-> ghost.overlap \/ Interferes(p),
                                  lastSave |-> [valid |-> TRUE, todos |-> proc[p].todos]]
                ELSE /\ proc' = [proc EXCEPT ![p] = [@ EXCEPT !.pos = @ + k]]
                     /\ ghost' = [ghost EXCEPT !.overlap = @ \/ Interferes(p)]
    /\ UNCHANGED last

\* The file system fails a step: the read of load, the rename of load, the open of
\* save, a write of save (OSError: permission denied, disk full). None is caught.
ReadFail(p) ==
    /\ proc[p].pc = "read"
    /\ proc' = [proc EXCEPT ![p] = Raise(@, "OSError")]
    /\ UNCHANGED <<fs, last, ghost>>

RenameFail(p) ==
    /\ proc[p].pc = "rename"
    /\ proc' = [proc EXCEPT ![p] = Raise(@, "OSError")]
    /\ UNCHANGED <<fs, last, ghost>>

OpenFail(p) ==
    /\ proc[p].pc = "open"
    /\ proc' = [proc EXCEPT ![p] = Raise(@, "OSError")]
    /\ UNCHANGED <<fs, last, ghost>>

WriteFail(p) ==
    /\ proc[p].pc = "write"
    /\ proc' = [proc EXCEPT ![p] = Raise(@, "OSError")]
    /\ UNCHANGED <<fs, last, ghost>>

\* One process, whose file-system steps may fail.
NextFault ==
    \/ Begin(1, MaxCalls)
    \/ LoadExists(1)
    \/ LoadRead(1)
    \/ LoadExcept(1)
    \/ LoadRename(1)
    \/ SaveOpen(1)
    \/ SaveWrite(1)
    \/ ReadFail(1)
    \/ RenameFail(1)
    \/ OpenFail(1)
    \/ WriteFail(1)

SpecFault == Init /\ [][NextFault]_vars

\* Two processes on the same items file, no locking, no failures.
InitConc ==
    /\ fs = [data |-> Absent, bak |-> Absent]
    /\ last = NoCall
    /\ proc = [p \in {1, 2} |-> Idle]
    /\ ghost = [overlap |-> FALSE, lastSave |-> NoSave]

NextConc ==
    \E p \in {1, 2} :
        \/ Begin(p, MaxConcCalls)
        \/ LoadExists(p)
        \/ LoadRead(p)
        \/ LoadExcept(p)
        \/ LoadRename(p)
        \/ SaveOpen(p)
        \/ SaveWrite(p)

SpecConc == InitConc /\ [][NextConc]_vars

\* ============================================================ the claims
\* The collection before the last call and the collection now, as load returns them.
Pre == Stored(last.pre)
Now == Stored(fs)

\* The outcome of load's try block on the items file as it was before the last call.
PreRead == read_todos(last.pre.data.bytes, NoId, None)

\* The call was one of the storage manager's methods, and returned.
Returned(op) == last.op = op /\ last.exc = "none"

\* The bytes are a list of item objects, each of which deserializes to a Todo.
WellFormedCollection(bytes) ==
    /\ json_load(bytes).exc = "none"
    /\ json_load(bytes).type = "list"
    /\ \A i \in 1..Len(json_load(bytes).elems) :
          /\ json_load(bytes).elems[i].k \in {"obj", "{}"}
          /\ item_from_dict(json_load(bytes).elems[i], NoId, None).exc = "none"

\* C1: for every content of an existing items file that is not a well-formed
\* collection, load does not raise, returns the empty collection, leaves the
\* original bytes in the .bak sibling and the items file path absent.
C1_LoadNeverRaises ==
    (last.op = "load" /\ last.pre.data.exists
       /\ ~WellFormedCollection(last.pre.data.bytes))
    => /\ last.exc = "none"
       /\ last.rtodos = <<>>
       /\ fs.bak = last.pre.data
       /\ ~fs.data.exists

\* get(todo_id) called in the present state.
GetNow(todo_id) == Call("get", fs, NoTodo, todo_id, NoId, None).rtodos

\* C3, as stated: after add(t) completes, get(t.id) returns a record equal to t,
\* whatever the items file held before.
C3_AddThenGet_AnyPriorState ==
    Returned("add") => GetNow(last.todo.id) = <<last.todo>>

\* C3, amended: after add(t) completes, get(t.id) returns a record equal to t when
\* no stored item had t's id before the add, and the earliest stored item with that
\* id when one had.
C3_AddThenGet ==
    Returned("add") =>
        GetNow(last.todo.id) =
            IF \E i \in 1..Len(Pre) : Pre[i].id = last.todo.id
            THEN <<Pre[CHOOSE i \in 1..Len(Pre) :
                         /\ Pre[i].id = last.todo.id
                         /\ \A j \in 1..(i - 1) : Pre[j].id # last.todo.id]>>
            ELSE <<last.todo>>

C3_Witness ==
    /\ Returned("add")
    /\ Len(Pre) >= 1
    /\ \A i \in 1..Len(Pre) : Pre[i].id # last.todo.id
    /\ last.todo.completed
    /\ GetNow(last.todo.id) = <<last.todo>>

\* The index i is replaced by the record and every other index is as before.
ReplacedAt(i) ==
    /\ last.rbool
    /\ Len(Now) = Len(Pre)
    /\ Now[i] = last.todo
    /\ \A j \in 1..Len(Pre) : j # i => Now[j] = Pre[j]

\* C4, as stated: update of an item whose id matches the item at index i returns
\* success and replaces index i, all other indices and the size unchanged.
C4_UpdateAtAnyMatchingIndex ==
    Returned("update") =>
        \A i \in 1..Len(Pre) : Pre[i].id = last.todo.id => ReplacedAt(i)

\* C4, amended: update of an item whose id matches a stored item returns success
\* and replaces the item at the first index i whose id matches, all other indices
\* and the size unchanged.
C4_UpdateAtFirstMatchingIndex ==
    Returned("update") =>
        \A i \in 1..Len(Pre) :
            (Pre[i].id = last.todo.id /\ \A j \in 1..(i - 1) : Pre[j].id # last.todo.id)
            => ReplacedAt(i)

C4_Witness ==
    /\ Returned("update")
    /\ Len(Pre) = 3
    /\ Pre[2].id = last.todo.id
    /\ Pre[1].id # last.todo.id
    /\ Pre[2] # last.todo
    /\ ReplacedAt(2)

\* C5, as stated: an update that returns failure has not touched the items file,
\* whatever it held before.
C5_FailedUpdateLeavesFile ==
    (Returned("update") /\ ~last.rbool) => fs.data = last.pre.data

\* C5, amended: update with an item whose id matches no stored item returns
\* failure; when the items file was absent or held a collection load reads, both
\* files are the same after the call as before; when load's recovery took the
\* file for corrupt, it is now the .bak sibling and the items file is absent.
C5_UpdateNoMatch ==
    (last.op = "update" /\ \A i \in 1..Len(Pre) : Pre[i].id # last.todo.id)
    => /\ (~last.pre.data.exists \/ PreRead.exc = "none")
          => (last.exc = "none" /\ ~last.rbool /\ fs = last.pre)
       /\ (last.pre.data.exists /\ PreRead.exc \in Caught)
          => /\ last.exc = "none" /\ ~last.rbool
             /\ ~fs.data.exists /\ fs.bak = last.pre.data

C5_Witness ==
    /\ Returned("update")
    /\ Len(Pre) >= 1
    /\ \A i \in 1..Len(Pre) : Pre[i].id # last.todo.id
    /\ ~last.rbool
    /\ fs = last.pre

\* C6: clear_completed returns the number of stored items that were completed
\* before the call, and no stored item is completed after it.
C6_ClearCompleted ==
    Returned("clear_completed") =>
        /\ last.rint = Cardinality({i \in 1..Len(Pre) : Pre[i].completed})
        /\ \A i \in 1..Len(Now) : ~Now[i].completed

C6_Witness ==
    /\ Returned("clear_completed")
    /\ last.rint = 2
    /\ Len(Pre) = 3
    /\ Len(Now) = 1

\* C7: delete removes the first stored item with the id and no other, keeps the
\* rest in order and returns true; with no such item it returns false and the
\* collection is unchanged.
C7_DeleteFirstMatch ==
    Returned("delete") =>
        IF \E i \in 1..Len(Pre) : Pre[i].id = last.id
        THEN \E i \in 1..Len(Pre) :
                /\ Pre[i].id = last.id
                /\ \A j \in 1..(i - 1) : Pre[j].id # last.id
                /\ last.rbool
                /\ Len(Now) = Len(Pre) - 1
                /\ \A j \in 1..(i - 1) : Now[j] = Pre[j]
                /\ \A j \in i..Len(Now) : Now[j] = Pre[j + 1]
        ELSE ~last.rbool /\ Now = Pre

C7_Witness ==
    /\ Returned("delete")
    /\ last.rbool
    /\ Len(Pre) = 3
    /\ Pre[1].id = last.id /\ Pre[3].id = last.id /\ Pre[2].id # last.id
    /\ Now = <<Pre[2], Pre[3]>>

\* load's except clause ran on the items file as it was before the last call.
Detected == last.pre.data.exists /\ PreRead.exc \in Caught

\* C10: there is one backup path; a call whose load detects a corrupt items file
\* leaves that file's bytes in it, replacing any earlier backup, and nothing else
\* changes the backup: it holds the bytes of the most recently detected corrupt file.
C10_SingleBackup ==
    /\ (last.op \in {"load", "add", "get", "update", "delete", "clear_completed"}
          /\ Detected)
       => (fs.bak = last.pre.data /\ fs.bak.exists)
    /\ ~Detected => fs.bak = last.pre.bak
    /\ last.op \in {"none", "foreign"} => fs.bak = last.pre.bak

C10_Witness ==
    /\ last.op = "load"
    /\ Detected
    /\ last.pre.bak.exists
    /\ last.pre.bak # last.pre.data
    /\ fs.bak = last.pre.data
    /\ ~fs.data.exists

\* C8: after any sequence of add, complete and uncomplete commands every stored
\* item has completed_at present exactly when completed is true; complete sets
\* both on the item it matched, uncomplete clears both, add stores the new item
\* with neither.
C8_CompletedAtIffCompleted ==
    /\ \A i \in 1..Len(Now) : (Now[i].completed_at # None) <=> Now[i].completed
    /\ (Returned("cli_add") /\ last.rbool)
       => /\ Len(Now) = Len(Pre) + 1
          /\ ~Now[Len(Now)].completed
          /\ Now[Len(Now)].completed_at = None
    /\ (Returned("cli_complete") /\ last.rint = 1)
       => /\ Len(Now) = Len(Pre)
          /\ \E i \in 1..Len(Now) :
                /\ startswith(Now[i].id, last.id)
                /\ Now[i].completed /\ Now[i].completed_at \in Clock
                /\ \A j \in 1..Len(Now) : j # i => Now[j] = Pre[j]
    /\ (Returned("cli_uncomplete") /\ last.rint = 1)
       => /\ Len(Now) = Len(Pre)
          /\ \E i \in 1..Len(Now) :
                /\ startswith(Now[i].id, last.id)
                /\ ~Now[i].completed /\ Now[i].completed_at = None
                /\ \A j \in 1..Len(Now) : j # i => Now[j] = Pre[j]

C8_Witness ==
    /\ Returned("cli_uncomplete")
    /\ last.rint = 1
    /\ Len(Now) = 2
    /\ \E i \in 1..2 :
          /\ startswith(Pre[i].id, last.id)
          /\ Pre[i].completed /\ Pre[i].completed_at # None
          /\ ~Now[i].completed /\ Now[i].completed_at = None
    /\ \E i \in 1..2 : Now[i].completed /\ Now[i].completed_at # None

\* The process has come back from a call of a mutating method.
Ended(p) == proc[p].pc = "idle" /\ proc[p].op \in StepOps

\* C2: a mutating operation that fails at any step leaves the items file holding
\* exactly what it held before the call; one that succeeds and saves leaves it
\* holding exactly the new collection.
C2_NoPartialSuccess ==
    \A p \in DOMAIN proc :
        Ended(p) =>
            IF proc[p].exc # "none"
            THEN fs.data = proc[p].pre.data
            ELSE proc[p].write => fs.data = File(Dump(proc[p].todos))

\* What a process's load returned is what the last completed save wrote (nothing
\* when there was none).
LoadsSeeLastSave ==
    \A p \in DOMAIN proc : proc[p].loaded = proc[p].seen.todos

InvalidPriorityItems(f) ==
    IF f.exists /\ json_load(f.bytes).type = "list"
    THEN {i \in 1..Len(json_load(f.bytes).elems) :
            /\ json_load(f.bytes).elems[i].k = "obj"
            /\ "priority" \in DOMAIN json_load(f.bytes).elems[i].d
            /\ IsStr(json_load(f.bytes).elems[i].d.priority)
            /\ json_load(f.bytes).elems[i].d.priority \notin PriorityValues}
    ELSE {}

StorageOps == {"load", "add", "get", "update", "delete", "clear_completed"}

\* C11, as stated: a storage operation that deserializes an item whose priority
\* string is outside {low, medium, high} ends with the deserialization error
\* reaching its caller.
C11_InvalidPriorityPropagates ==
    (last.op \in StorageOps /\ InvalidPriorityItems(last.pre.data) # {})
    => last.exc = "ValueError"

\* C11, amended: from_dict raises ValueError on every item whose priority string is
\* outside {low, medium, high}, to the code that called it; no storage operation
\* passes it on. Where it is the first error load meets, load catches it: the items
\* file goes to the .bak path with the bytes it had and the operation goes on from
\* the empty collection and returns (finding nothing, removing nothing, saving what
\* add and clear_completed always save); an error that does leave the call is that of
\* an earlier item, never the priority's.
C11_InvalidPriorityCaughtByLoad ==
    /\ \A i \in InvalidPriorityItems(fs.data) :
          from_dict(json_load(fs.data.bytes).elems[i].d, NoId, None).exc = "ValueError"
    /\ last.exc # "ValueError"
    /\ (last.op \in StorageOps /\ InvalidPriorityItems(last.pre.data) # {})
       => /\ PreRead.exc \in {"ValueError", "TypeError", "AttributeError"}
          /\ PreRead.exc = "ValueError"
             => /\ last.exc = "none"
                /\ fs.bak = last.pre.data
                /\ Pre = <<>>
                /\ last.op # "add"
                   => (last.rtodos = <<>> /\ ~last.rbool /\ last.rint = 0)
                /\ last.op \in {"load", "get", "update", "delete"}
                   => ~fs.data.exists
                /\ last.op = "clear_completed" => fs.data = File(Dump(<<>>))
                /\ last.op = "add" => fs.data = File(Dump(<<last.todo>>))
          /\ PreRead.exc # "ValueError"
             => (last.exc = PreRead.exc /\ fs = last.pre)

\* add was called on an items file holding a stored item and an item of priority
\* "urgent": it returned, the file holds the added item only and the backup the
\* two items.
C11_Witness ==
    /\ last.op = "add"
    /\ last.exc = "none"
    /\ Cardinality(InvalidPriorityItems(last.pre.data)) = 1
    /\ Len(json_load(last.pre.data.bytes).elems) = 2
    /\ PreRead.exc = "ValueError"
    /\ fs.bak = last.pre.data
    /\ fs.data = File(Dump(<<last.todo>>))

====
